---- MODULE Spec2Model ----
(***************************************************************************)
(* Model of canvas_grade_notifier.py: one scheduled run lists the active   *)
(* courses, runs the grade stream (check_for_new_grades) and then the      *)
(* assignment stream (check_for_new_assignments).  Each stream loads its   *)
(* "seen" snapshot from a JSON file, walks the courses, compares every     *)
(* fetched record with the snapshot, sends a push notification for every   *)
(* detected change and finally writes the snapshot back.                   *)
(*                                                                         *)
(* The Canvas data (remoteSubs, remoteAsgs) changes only between runs;     *)
(* HTTP outcomes (status codes, network errors, delivery results) are      *)
(* drawn when the call is made.  Canvas ids are primary keys, so one       *)
(* response never lists the same id twice and a snapshot key               *)
(* "<course_id>_<record id>" is modelled as the pair <<course, id>>.       *)
(***************************************************************************)
EXTENDS Integers, Sequences, FiniteSets, TLC

\* ---------------------------------------------------------------- bounds
MaxRuns     == 2    \* scheduled runs of the program
MaxChanges  == 2    \* edits made on the Canvas side
MaxComments == 2    \* comments on one submission

Courses  == {1, 2}                    \* ids of the active courses, in list order
NumCourses == Cardinality(Courses)
\* the records Canvas may hold, as <<course id, record id>>: course 1 has up
\* to two graded submissions, every course up to one assignment
SubKeys  == {<<1, 1>>, <<1, 2>>, <<2, 1>>}
AsgKeys  == {<<1, 1>>, <<2, 1>>}
Keys     == SubKeys \cup AsgKeys
Grades   == {"A", "B"}
Names    == {"Essay", "Essay 1"}    \* names an assignment may carry

\* due_at: None, or a timestamp.  Timestamps 1 and 2 differ only in their
\* seconds, timestamp 3 is another day.
NoDue    == 0
DueVals  == 0..3

\* A submission comment: written by the submission's own user or not, text
\* blank after strip() or not.
Comment(own, blank) == [own |-> own, blank |-> blank]
CommentKinds == {Comment(FALSE, FALSE), Comment(TRUE, FALSE), Comment(FALSE, TRUE)}

\* HTTP outcomes of the per-course calls.
FetchOutcomes == {"ok", "unauthorized", "non200", "neterr"}

Empty == << >>      \* the empty mapping {} / the empty list []

\* d with key k bound to v (Python: d[k] = v)
Put(d, k, v) == [x \in (DOMAIN d) \cup {k} |-> IF x = k THEN v ELSE d[x]]
\* d without key k
Drop(d, k) == [x \in (DOMAIN d) \ {k} |-> d[x]]

\* ------------------------------------------------------------ pure helpers

\* format_due_date: None renders as "No due date" (0); a timestamp renders
\* without its year and seconds, so 1 and 2 render alike.
format_due_date(due_at_str) ==
    IF due_at_str = NoDue THEN 0 ELSE 10 + ((due_at_str + 1) \div 2)

\* the comprehension without its test of the author
comment_lines_any_author(raw_comments) ==
    SelectSeq(raw_comments, LAMBDA c : ~c.blank)

\* the comprehension that keeps instructor comments with visible text
comment_lines(raw_comments) ==
    SelectSeq(raw_comments, LAMBDA c : (~c.blank) /\ (~c.own))

\* overall_str from the (score, grade) pair of get_course_grade; a pair is
\* modelled by the string it renders to.
OverallStrs == {"N/A", "90% (A)"}

\* lastEvent after a step that processed no record
NoEvent == [kind |-> "None", key |-> <<0, 0>>, old |-> 0, new |-> 0,
            overall |-> "N/A", comments |-> 0, delivered |-> FALSE]
\* lastEvent after a record was processed and nothing was sent
Quiet(key) == [NoEvent EXCEPT !.key = key]

VARIABLES
    remoteSubs,     \* Canvas: key -> [grade, comments] of graded submissions
    remoteAsgs,     \* Canvas: key -> [name, due_at] of assignments
    changes,        \* edits made on the Canvas side so far
    gradesFile,     \* seen_grades.json   (Empty when the file is missing)
    asgFile,        \* seen_assignments.json
    pc,             \* position of the run
    runs,           \* runs started so far; also the clock of datetime.now()
    ci,             \* course the loop is at
    todo,           \* records of the current course still to process
    seen,           \* the stream's in-memory snapshot
    found,          \* the stream's counter of delivered notifications
    overall_str,    \* overall grade string of the current course
    lastEvent,      \* the event of the last record processed (NoEvent if none)
    evCount,        \* events the current stream produced, per key
    sentSince,      \* notifications attempted per stream and key since the
                    \* Canvas data last changed
    exitCode,       \* -1 while running, else the process exit status
    io,             \* log of the process: listing and file operations, in order
    skipped,        \* courses whose submissions fetch failed in the grade stream
    loaded,         \* the snapshot each stream got from load_json in this run
    shown,          \* the overall grade the last grade notification of a key
                    \* showed, since the Canvas data last changed
    other           \* the locals of a second process of the program, which
                    \* is not scheduled at the moment

vars == <<remoteSubs, remoteAsgs, changes, gradesFile, asgFile, pc, runs, ci,
          todo, seen, found, overall_str, lastEvent, evCount, sentSince,
          exitCode, io, skipped, loaded, shown, other>>

remoteVars == <<remoteSubs, remoteAsgs, changes>>
fileVars   == <<gradesFile, asgFile>>

Streams == {"grades", "assignments"}
ZeroCount == [s \in Streams |-> [k \in Keys |-> 0]]
NothingLoaded == [s \in Streams |-> Empty]
NoEvents == [k \in Keys |-> 0]
\* the locals of a process that was not started yet
IdleProcess ==
    [pc |-> "idle", ci |-> 0, todo |-> << >>, seen |-> Empty, found |-> 0,
     overall_str |-> "N/A", lastEvent |-> NoEvent, evCount |-> NoEvents,
     exitCode |-> -1, io |-> << >>, skipped |-> {}, loaded |-> NothingLoaded]

Init ==
    /\ remoteSubs = Empty
    /\ remoteAsgs = Empty
    /\ changes = 0
    /\ gradesFile = Empty
    /\ asgFile = Empty
    /\ pc = "idle"
    /\ runs = 0
    /\ ci = 0
    /\ todo = << >>
    /\ seen = Empty
    /\ found = 0
    /\ overall_str = "N/A"
    /\ lastEvent = NoEvent
    /\ evCount = NoEvents
    /\ sentSince = ZeroCount
    /\ exitCode = -1
    /\ io = << >>
    /\ skipped = {}
    /\ loaded = NothingLoaded
    /\ shown = Empty
    /\ other = IdleProcess


\* ------------------------------------------------ the Canvas side (environment)

CanEdit == pc = "idle" /\ changes < MaxChanges

\* An edit opens a new epoch of the Canvas data: what was recorded about the
\* old data and about the finished process is dropped.
Edited ==
    /\ changes' = changes + 1
    /\ sentSince' = ZeroCount
    /\ exitCode' = -1
    /\ io' = << >>
    /\ shown' = Empty
    /\ UNCHANGED <<gradesFile, asgFile, pc, runs, ci, todo, seen, found,
                   overall_str, lastEvent, evCount, skipped, loaded, other>>

\* a teacher grades a submission, with or without a first comment on it.
\* Grades are only stored and shown, so the first grade is always "A";
\* Regrade changes it.
PostGrade ==
    /\ CanEdit
    /\ \E k \in SubKeys \ DOMAIN remoteSubs :
       \E cs \in {<< >>, <<Comment(FALSE, FALSE)>>} :
          /\ Len(cs) <= MaxComments
          /\ remoteSubs' = Put(remoteSubs, k, [grade |-> "A", comments |-> cs])
    /\ UNCHANGED remoteAsgs
    /\ Edited

\* somebody comments on a graded submission
AddComment ==
    /\ CanEdit
    /\ \E k \in DOMAIN remoteSubs : \E c \in CommentKinds :
          /\ Len(remoteSubs[k].comments) < MaxComments
          /\ remoteSubs' = [remoteSubs EXCEPT ![k].comments = Append(@, c)]
    /\ UNCHANGED remoteAsgs
    /\ Edited

\* the latest comment is deleted
DeleteComment ==
    /\ CanEdit
    /\ \E k \in DOMAIN remoteSubs :
          /\ remoteSubs[k].comments # << >>
          /\ remoteSubs' = [remoteSubs EXCEPT
                              ![k].comments = SubSeq(@, 1, Len(@) - 1)]
    /\ UNCHANGED remoteAsgs
    /\ Edited

\* the grade of a graded submission is changed
Regrade ==
    /\ CanEdit
    /\ \E k \in DOMAIN remoteSubs : \E g \in Grades \ {remoteSubs[k].grade} :
          remoteSubs' = [remoteSubs EXCEPT ![k].grade = g]
    /\ UNCHANGED remoteAsgs
    /\ Edited

\* a submission leaves the graded state
UnpostGrade ==
    /\ CanEdit
    /\ \E k \in DOMAIN remoteSubs : remoteSubs' = Drop(remoteSubs, k)
    /\ UNCHANGED remoteAsgs
    /\ Edited

PublishAssignment ==
    /\ CanEdit
    /\ \E k \in AsgKeys \ DOMAIN remoteAsgs : \E d \in DueVals :
          remoteAsgs' = Put(remoteAsgs, k, [name |-> "Essay", due_at |-> d])
    /\ UNCHANGED remoteSubs
    /\ Edited

ChangeDue ==
    /\ CanEdit
    /\ \E k \in DOMAIN remoteAsgs : \E d \in DueVals \ {remoteAsgs[k].due_at} :
          remoteAsgs' = [remoteAsgs EXCEPT ![k].due_at = d]
    /\ UNCHANGED remoteSubs
    /\ Edited

\* a teacher edits an assignment: it gets another name, and the same save
\* may move its due date
RenameAssignment ==
    /\ CanEdit
    /\ \E k \in DOMAIN remoteAsgs : \E n \in Names \ {remoteAsgs[k].name} :
       \E d \in DueVals :
          remoteAsgs' = [remoteAsgs EXCEPT ![k] = [name |-> n, due_at |-> d]]
    /\ UNCHANGED remoteSubs
    /\ Edited

DeleteAssignment ==
    /\ CanEdit
    /\ \E k \in DOMAIN remoteAsgs : remoteAsgs' = Drop(remoteAsgs, k)
    /\ UNCHANGED remoteSubs
    /\ Edited

\* ------------------------------------------------------------- entry point

\* the scheduler starts the program
StartRun ==
    /\ pc = "idle"
    /\ runs < MaxRuns
    /\ runs' = runs + 1
    /\ pc' = "main"
    /\ exitCode' = -1
    /\ io' = << >>
    /\ UNCHANGED <<remoteVars, shown, other,
                   fileVars, ci, todo, seen, found, overall_str,
                   lastEvent, evCount, sentSince, skipped, loaded>>

\* the process ends: its locals, and the records kept about the run, are gone
Exit(code) ==
    /\ exitCode' = code
    /\ pc' = "idle"
    /\ ci' = 0
    /\ todo' = << >>
    /\ seen' = Empty
    /\ overall_str' = "N/A"
    /\ found' = 0
    /\ lastEvent' = NoEvent
    /\ evCount' = NoEvents
    /\ skipped' = {}
    /\ loaded' = NothingLoaded

\* get_active_courses raises (raise_for_status or a network error): exit(1)
GetCoursesFails ==
    /\ pc = "main"
    /\ Exit(1)
    /\ UNCHANGED <<remoteVars, shown, other,
                   fileVars, runs, sentSince, io>>

GetCoursesOk ==
    /\ pc = "main"
    /\ pc' = "g_load"
    /\ io' = Append(io, "courses")
    /\ UNCHANGED <<remoteVars, shown, other,
                   fileVars, runs, ci, todo, seen, found,
                   overall_str, lastEvent, evCount, sentSince, exitCode,
                   skipped, loaded>>


\* ------------------------------------------------------------ grade stream

\* the records of course c in a response, in id order
RecordsOf(remote, c) ==
    LET ids == {k[2] : k \in {x \in DOMAIN remote : x[1] = c}}
        Sorted[n \in 0..Cardinality(ids)] ==
            IF n = 0 THEN << >>
            ELSE LET done == {Sorted[n - 1][j] : j \in 1..(n - 1)}
                     nxt  == CHOOSE i \in ids \ done :
                                \A j \in ids \ done : i <= j
                 IN  Append(Sorted[n - 1], nxt)
    IN  Sorted[Cardinality(ids)]

\* get_graded_submissions: 401 raises, any other non-200 gives [], a network
\* error raises out of requests.get
get_graded_submissions(course_id, outcome) ==
    IF outcome = "ok" THEN RecordsOf(remoteSubs, course_id) ELSE << >>

get_graded_submissions_raises(outcome) == outcome \in {"unauthorized", "neterr"}

\* get_assignments: any non-200 gives [], a network error raises
get_assignments(course_id, outcome) ==
    IF outcome = "ok" THEN RecordsOf(remoteAsgs, course_id) ELSE << >>

\* ---- variants with a plausible slip, used to show what each property detects
\* the "key not in seen" test forgotten
is_new_grade_forgotten(snapshot, key) == FALSE
\* >= written for >
has_new_comments_geq(n, stored) == n >= stored
\* != written for >
has_new_comments_neq(n, stored) == n # stored
\* the assignment to seen[key] moved out of the if
commit_always(snapshot, key, record, emits) == Put(snapshot, key, record)
\* the rendered due dates compared instead of the raw values
due_differs_rendered(due_at, stored_due) ==
    format_due_date(due_at) # format_due_date(stored_due)

\* the assignment stream saving under the file name of the grade stream
SaveAssignments_to_grades_file ==
    /\ pc = "a_course"
    /\ ci > NumCourses
    /\ gradesFile' = seen
    /\ io' = Append(io, "saveA")
    /\ pc' = "a_done"
    /\ lastEvent' = NoEvent
    /\ UNCHANGED <<remoteVars, shown, other,
                   asgFile, runs, ci, todo, seen, found,
                   overall_str, evCount, sentSince, exitCode, skipped, loaded>>

\* found incremented before the result of send_notification is looked at
Notify_counts_attempts(stream, key, event) ==
    \E ok \in BOOLEAN :
        /\ lastEvent' = [event EXCEPT !.delivered = ok]
        /\ found' = found + 1
        /\ evCount' = [evCount EXCEPT ![key] = @ + 1]
        /\ sentSince' = [sentSince EXCEPT ![stream][key] = @ + 1]

\* the record keeping the overall grade next to the grade
GradeRecord_with_overall(key, submission, n) ==
    [assignment |-> key[2], course |-> key[1], grade |-> submission.grade,
     comment_count |-> n, notified_at |-> runs, overall |-> overall_str]

\* the record written anew on a due-date change, as for a new key
DueUpdated_as_new(snapshot, key, due_at) ==
    Put(snapshot, key,
        [name |-> remoteAsgs[key].name, course |-> key[1], due_at |-> due_at,
         first_seen |-> runs, due_changed_at |-> runs])

\* "seen = {key: {...}}" written for "seen[key] = {...}"
commit_fresh(snapshot, key, record, emits) ==
    IF emits THEN Put(Empty, key, record) ELSE snapshot

\* the stored grade refreshed on every look at a stored record
commit_grade(snapshot, key, record, emits) ==
    IF emits THEN Put(snapshot, key, record)
    ELSE [snapshot EXCEPT ![key].grade = record.grade]

\* the assignment to seen[key] left out
commit_skipped(snapshot, key, record, emits) == snapshot

\* save_json writing the file's entries together with the snapshot's
SaveGrades_merging ==
    /\ pc = "g_course"
    /\ ci > NumCourses
    /\ gradesFile' = [k \in DOMAIN gradesFile \cup DOMAIN seen |->
                         IF k \in DOMAIN seen THEN seen[k] ELSE gradesFile[k]]
    /\ io' = Append(io, "saveG")
    /\ pc' = "a_load"
    /\ lastEvent' = NoEvent
    /\ skipped' = {}
    /\ UNCHANGED <<remoteVars, shown, other,
                   asgFile, runs, ci, todo, seen, found,
                   overall_str, evCount, sentSince, exitCode, loaded>>

\* stored.get("comment_count", 0) if stored else 0
stored_comment_count(snapshot, key) ==
    IF key \in DOMAIN snapshot THEN snapshot[key].comment_count ELSE 0

is_new_grade(snapshot, key) == key \notin DOMAIN snapshot

has_new_comments(n, stored) == n > stored

\* the record written for a key on emission
GradeRecord(key, submission, n) ==
    [assignment |-> key[2], course |-> key[1], grade |-> submission.grade,
     comment_count |-> n, notified_at |-> runs]

\* seen = load_json(SEEN_GRADES_FILE); found = 0
LoadGrades ==
    /\ pc = "g_load"
    /\ seen' = gradesFile
    /\ found' = 0
    /\ ci' = 1
    /\ pc' = "g_course"
    /\ io' = Append(io, "loadG")
    /\ loaded' = [loaded EXCEPT !["grades"] = gradesFile]
    /\ evCount' = NoEvents
    /\ UNCHANGED <<remoteVars, shown, other,
                   fileVars, runs, todo, overall_str, lastEvent,
                   sentSince, exitCode, skipped>>

\* get_graded_submissions raises: the except clause skips the course
GradesFetchSkips ==
    /\ pc = "g_course"
    /\ ci <= NumCourses
    /\ \E outcome \in FetchOutcomes : get_graded_submissions_raises(outcome)
    /\ skipped' = skipped \cup {ci}
    /\ ci' = ci + 1
    /\ lastEvent' = NoEvent
    /\ UNCHANGED <<remoteVars, shown, other,
                   fileVars, pc, runs, todo, seen, found,
                   overall_str, evCount, sentSince, exitCode, io, loaded>>

\* the submissions are fetched (or [] on a non-200 answer), then the overall
\* grade: an answer of get_course_grade gives overall_str, "N/A" on non-200
GradesFetched ==
    /\ pc = "g_course"
    /\ ci <= NumCourses
    /\ \E outcome \in FetchOutcomes \ {"unauthorized", "neterr"} :
         LET submissions == get_graded_submissions(ci, outcome) IN
         /\ skipped' = IF outcome = "ok" THEN skipped ELSE skipped \cup {ci}
         /\ IF submissions = << >>
              THEN /\ ci' = ci + 1
                   /\ UNCHANGED <<pc, todo, overall_str>>
              ELSE /\ \E o \in OverallStrs : overall_str' = o
                   /\ todo' = submissions
                   /\ pc' = "g_sub"
                   /\ UNCHANGED ci
    /\ lastEvent' = NoEvent
    /\ UNCHANGED <<remoteVars, shown, other,
                   fileVars, runs, seen, found, evCount,
                   sentSince, exitCode, io, loaded>>

\* requests.get inside get_course_grade raises: nothing catches it, the
\* process dies with a traceback (status 1) before save_json
CourseGradeRaises ==
    /\ pc = "g_course"
    /\ ci <= NumCourses
    /\ Exit(1)
    /\ UNCHANGED <<remoteVars, shown, other,
                   fileVars, runs, sentSince, io>>

\* "if is_new_grade or has_new_comments: seen[key] = {...}": the snapshot
\* after the record was looked at
commit(snapshot, key, record, emits) ==
    IF emits THEN Put(snapshot, key, record) ELSE snapshot

\* the loop goes to the next record, or to the next course after the last
NextRecord(position) ==
    /\ todo' = Tail(todo)
    /\ IF Tail(todo) = << >>
         THEN /\ pc' = position
              /\ ci' = ci + 1
              /\ overall_str' = "N/A"
         ELSE UNCHANGED <<pc, ci, overall_str>>

\* what both branches of a stream do once they decided to notify:
\* send_notification returns ok, found counts the deliveries
Notify(stream, key, event) ==
    \E ok \in BOOLEAN :
        /\ lastEvent' = [event EXCEPT !.delivered = ok]
        /\ found' = IF ok THEN found + 1 ELSE found
        /\ evCount' = [evCount EXCEPT ![key] = @ + 1]
        /\ sentSince' = [sentSince EXCEPT ![stream][key] = @ + 1]

\* one iteration of "for submission in submissions"
ProcessSubmission ==
    /\ pc = "g_sub"
    /\ todo # << >>
    /\ LET key        == <<ci, Head(todo)>>
           submission == remoteSubs[key]
           n          == Len(comment_lines(submission.comments))
           emits      == \/ is_new_grade(seen, key)
                         \/ has_new_comments(n, stored_comment_count(seen, key))
       IN  /\ seen' = commit(seen, key, GradeRecord(key, submission, n), emits)
           /\ IF emits
                THEN /\ Notify("grades", key,
                               [kind |-> "GradePosted", key |-> key,
                                old |-> 0, new |-> 0, overall |-> overall_str,
                                comments |-> n, delivered |-> FALSE])
                     /\ shown' = Put(shown, key, overall_str)
                ELSE /\ lastEvent' = Quiet(key)
                     /\ UNCHANGED <<found, evCount, sentSince, shown>>
    /\ NextRecord("g_course")
    /\ UNCHANGED <<remoteVars, other, fileVars, runs, exitCode, io, skipped,
                   loaded>>

\* save_json(SEEN_GRADES_FILE, seen) after the last course
SaveGrades ==
    /\ pc = "g_course"
    /\ ci > NumCourses
    /\ gradesFile' = seen
    /\ io' = Append(io, "saveG")
    /\ pc' = "a_load"
    /\ lastEvent' = NoEvent
    /\ skipped' = {}
    /\ UNCHANGED <<remoteVars, shown, other,
                   asgFile, runs, ci, todo, seen, found,
                   overall_str, evCount, sentSince, exitCode, loaded>>


\* ------------------------------------------------------- assignment stream

\* the record inserted for a new key; due_changed_at 0 stands for the key
\* "due_changed_at" not being in the record yet
AssignmentRecord(key, assignment_name, due_at) ==
    [name |-> assignment_name, course |-> key[1], due_at |-> due_at,
     first_seen |-> runs, due_changed_at |-> 0]

\* due_at != stored_due
due_differs(due_at, stored_due) == due_at # stored_due

\* seen = load_json(SEEN_ASSIGNMENTS_FILE); found = 0
LoadAssignments ==
    /\ pc = "a_load"
    /\ seen' = asgFile
    /\ found' = 0
    /\ ci' = 1
    /\ pc' = "a_course"
    /\ io' = Append(io, "loadA")
    /\ loaded' = [loaded EXCEPT !["assignments"] = asgFile]
    /\ evCount' = NoEvents
    /\ UNCHANGED <<remoteVars, shown, other,
                   fileVars, runs, todo, overall_str, lastEvent,
                   sentSince, exitCode, skipped>>

\* get_assignments answers, with the list or with [] on a non-200 status
AssignmentsFetched ==
    /\ pc = "a_course"
    /\ ci <= NumCourses
    /\ \E outcome \in {"ok", "non200"} :
         LET assignments == get_assignments(ci, outcome) IN
         IF assignments = << >>
           THEN /\ ci' = ci + 1
                /\ UNCHANGED <<pc, todo>>
           ELSE /\ todo' = assignments
                /\ pc' = "a_rec"
                /\ UNCHANGED ci
    /\ lastEvent' = NoEvent
    /\ UNCHANGED <<remoteVars, shown, other,
                   fileVars, runs, seen, found, overall_str,
                   evCount, sentSince, exitCode, io, skipped, loaded>>

\* requests.get inside get_assignments raises: nothing catches it, the
\* process dies (status 1) before save_json
AssignmentsRaises ==
    /\ pc = "a_course"
    /\ ci <= NumCourses
    /\ Exit(1)
    /\ UNCHANGED <<remoteVars, shown, other,
                   fileVars, runs, sentSince, io>>

\* seen[key]["due_at"] = due_at; seen[key]["due_changed_at"] = now
DueUpdated(snapshot, key, due_at) ==
    [snapshot EXCEPT ![key].due_at = due_at, ![key].due_changed_at = runs]

\* one iteration of "for assignment in get_assignments(course_id)"
ProcessAssignment ==
    /\ pc = "a_rec"
    /\ todo # << >>
    /\ LET key             == <<ci, Head(todo)>>
           assignment_name == remoteAsgs[key].name
           due_at          == remoteAsgs[key].due_at
       IN  IF key \notin DOMAIN seen
             THEN /\ seen' = Put(seen, key,
                                 AssignmentRecord(key, assignment_name, due_at))
                  /\ Notify("assignments", key,
                            [kind |-> "NewAssignment", key |-> key,
                             old |-> 0, new |-> format_due_date(due_at),
                             overall |-> "N/A", comments |-> 0,
                             delivered |-> FALSE])
             ELSE LET stored_due == seen[key].due_at IN
                  IF due_differs(due_at, stored_due)
                    THEN /\ seen' = DueUpdated(seen, key, due_at)
                         /\ Notify("assignments", key,
                                   [kind |-> "DueDateChanged", key |-> key,
                                    old |-> format_due_date(stored_due),
                                    new |-> format_due_date(due_at),
                                    overall |-> "N/A", comments |-> 0,
                                    delivered |-> FALSE])
                    ELSE /\ lastEvent' = Quiet(key)
                         /\ UNCHANGED <<seen, found, evCount, sentSince>>
    /\ NextRecord("a_course")
    /\ UNCHANGED <<remoteVars, shown, other,
                   fileVars, runs, exitCode, io, skipped, loaded>>

\* save_json(SEEN_ASSIGNMENTS_FILE, seen) after the last course
SaveAssignments ==
    /\ pc = "a_course"
    /\ ci > NumCourses
    /\ asgFile' = seen
    /\ io' = Append(io, "saveA")
    /\ pc' = "a_done"
    /\ lastEvent' = NoEvent
    /\ UNCHANGED <<remoteVars, shown, other,
                   gradesFile, runs, ci, todo, seen, found,
                   overall_str, evCount, sentSince, exitCode, skipped, loaded>>

\* print("Done."): the interpreter leaves with status 0
Finish ==
    /\ pc = "a_done"
    /\ Exit(0)
    /\ UNCHANGED <<remoteVars, shown, other,
                   fileVars, runs, sentSince, io>>

\* ------------------------------------------------------------ specification

Next ==
    \/ PostGrade \/ AddComment \/ DeleteComment \/ Regrade \/ UnpostGrade
    \/ PublishAssignment \/ ChangeDue \/ RenameAssignment \/ DeleteAssignment
    \/ StartRun \/ GetCoursesFails \/ GetCoursesOk
    \/ LoadGrades \/ GradesFetchSkips \/ GradesFetched \/ CourseGradeRaises
    \/ ProcessSubmission \/ SaveGrades
    \/ LoadAssignments \/ AssignmentsFetched \/ AssignmentsRaises
    \/ ProcessAssignment \/ SaveAssignments \/ Finish

Spec == Init /\ [][Next]_vars

TypeOK ==
    /\ pc \in {"idle", "main", "g_load", "g_course", "g_sub", "a_load",
               "a_course", "a_rec", "a_done"}
    /\ exitCode \in {-1, 0, 1}
    /\ runs \in 0..MaxRuns
    /\ changes \in 0..MaxChanges
    /\ DOMAIN seen \subseteq Keys
    /\ DOMAIN gradesFile \subseteq Keys
    /\ DOMAIN asgFile \subseteq Keys


\* ------------------------------------------------------------- properties

InGrades      == pc \in {"g_course", "g_sub"}
InAssignments == pc \in {"a_course", "a_rec"}
\* the process has ended
Ended == pc = "idle" /\ exitCode # -1
FullLog == <<"courses", "loadG", "saveG", "loadA", "saveA">>
\* the filtered comment count Canvas shows for key k
RemoteCount(k) == Len(comment_lines(remoteSubs[k].comments))

\* C1: idempotence / exactly-once.  While the Canvas data is unchanged, no
\* key is notified a second time, however many runs see the same data: a
\* run over the data an earlier run already notified sends nothing.
C1_ExactlyOnce ==
    \A s \in Streams : \A k \in Keys : sentSince[s][k] <= 1

\* C2: at-least-once delivery.  When send_notification returns failure for
\* a detected change, the snapshot entry of that key is not written, so the
\* next run detects the change again.
C2_FailedDeliveryNotCommitted ==
    [][(lastEvent'.kind # "None" /\ ~lastEvent'.delivered) => seen' = seen]_vars

\* the stream whose snapshot is loaded, and the file it saves to
Stream     == IF pc \in {"g_course", "g_sub", "a_load"} THEN "grades"
              ELSE "assignments"
SavedFile  == IF Stream = "grades" THEN gradesFile ELSE asgFile
\* a stream is between its load_json and its save_json / it just saved
Running    == InGrades \/ InAssignments
JustSaved  == pc \in {"a_load", "a_done"}

\* C3: new-key coverage.  In either stream a fetched record whose key is not
\* in the snapshot when it is processed gets an event, no key gets more than
\* one event in a run, and the key is in the in-memory snapshot from then
\* on and in the file the stream writes at its end.
C3_NewKeyCoverage ==
    /\ \A k \in Keys :
          /\ evCount[k] <= 1
          /\ (evCount[k] = 1 /\ Running) => k \in DOMAIN seen
          /\ (evCount[k] = 1 /\ JustSaved) => k \in DOMAIN SavedFile
    /\ (Running /\ lastEvent.key \in Keys
          /\ lastEvent.key \notin DOMAIN loaded[Stream])
       => /\ lastEvent.kind # "None"
          /\ evCount[lastEvent.key] = 1
          /\ lastEvent.key \in DOMAIN seen

\* the assignment stream has saved a key that was new to it in this run,
\* after the grade stream saved one
C3_Witness ==
    /\ pc = "a_done"
    /\ \E k \in DOMAIN asgFile :
          k \notin DOMAIN loaded["assignments"] /\ evCount[k] = 1
    /\ \E k \in DOMAIN gradesFile :
          k \notin DOMAIN loaded["grades"] /\ gradesFile[k].notified_at = runs

\* C4: grade decision rule.  Processing a submission produces exactly one
\* event if its key is not in the snapshot or its filtered comment count is
\* strictly greater than the stored comment_count, and no event otherwise
\* (so none for an existing key with an equal count).
C4_GradeDecisionRule ==
    [][pc = "g_sub" =>
         LET key == <<ci, Head(todo)>>
             due == \/ key \notin DOMAIN seen
                    \/ RemoteCount(key) > seen[key].comment_count
         IN  evCount'[key] - evCount[key] = IF due THEN 1 ELSE 0]_vars

\* an event for a key that was already stored, caused by new comments alone
C4_Witness ==
    /\ InGrades
    /\ lastEvent.kind = "GradePosted"
    /\ lastEvent.key \in DOMAIN loaded["grades"]
    /\ lastEvent.comments > loaded["grades"][lastEvent.key].comment_count

\* C5: assignment decision rule.  A key not in the snapshot gives a
\* NewAssignment event and a record with the current due_at; a stored key
\* whose fetched due_at differs from the stored one gives exactly one
\* DueDateChanged event with the old and the new due date and stores the new
\* due_at; an absent due date differs from every timestamp.
C5_AssignmentDecisionRule ==
    [][pc = "a_rec" =>
         LET key    == <<ci, Head(todo)>>
             due_at == remoteAsgs[key].due_at
             events == evCount'[key] - evCount[key]
         IN  IF key \notin DOMAIN seen
               THEN /\ lastEvent'.kind = "NewAssignment"
                    /\ events = 1
                    /\ key \in DOMAIN seen'
                    /\ seen'[key].due_at = due_at
               ELSE /\ (due_at # seen[key].due_at) =>
                          /\ lastEvent'.kind = "DueDateChanged"
                          /\ events = 1
                          /\ lastEvent'.old = format_due_date(seen[key].due_at)
                          /\ lastEvent'.new = format_due_date(due_at)
                          /\ seen'[key].due_at = due_at
                    /\ ((due_at = NoDue) # (seen[key].due_at = NoDue)) =>
                          lastEvent'.kind = "DueDateChanged"]_vars

\* a due date appeared on a stored assignment that had none
C5_Witness ==
    /\ InAssignments
    /\ lastEvent.kind = "DueDateChanged"
    /\ lastEvent.key \in DOMAIN loaded["assignments"]
    /\ loaded["assignments"][lastEvent.key].due_at = NoDue
    /\ seen[lastEvent.key].due_at # NoDue

\* C6: comment_count monotonicity.  Once a key is in the grade snapshot its
\* stored comment_count never decreases, in the file and in the stream's
\* in-memory snapshot, whatever comment lists later runs fetch.
C6_CommentCountMonotone ==
    [][/\ \A k \in DOMAIN gradesFile :
             /\ k \in DOMAIN gradesFile'
             /\ gradesFile'[k].comment_count >= gradesFile[k].comment_count
       /\ (InGrades /\ InGrades') =>
             \A k \in DOMAIN seen :
                /\ k \in DOMAIN seen'
                /\ seen'[k].comment_count >= seen[k].comment_count]_vars

\* a submission was processed that shows fewer comments than the snapshot
\* stores for it
C6_Witness ==
    /\ InGrades
    /\ lastEvent.key \in DOMAIN seen \cap DOMAIN remoteSubs
    /\ RemoteCount(lastEvent.key) < seen[lastEvent.key].comment_count

\* C7: no event implies no mutation.  In both streams, processing a record
\* without producing an event leaves the whole snapshot as it was, and
\* processing a record never touches the entry of another key.
C7_NoEventNoMutation ==
    [][(pc \in {"g_sub", "a_rec"}) =>
         LET key == <<ci, Head(todo)>>
         IN  /\ (evCount' = evCount) => (seen' = seen)
             /\ DOMAIN seen' \subseteq (DOMAIN seen \cup {key})
             /\ \A k \in DOMAIN seen \ {key} :
                   (k \in DOMAIN seen' /\ seen'[k] = seen[k])]_vars

\* a stored record was processed without an event while another key is stored
C7_Witness ==
    /\ lastEvent.kind = "None"
    /\ lastEvent.key \in DOMAIN seen
    /\ DOMAIN seen # {lastEvent.key}
    /\ seen[lastEvent.key] = loaded[Stream][lastEvent.key]

C9_NoPerCourseAbort ==
    (Ended /\ Len(io) > 0) =>
        \E i, j \in 1..Len(io) : io[i] = "saveG" /\ io[j] = "saveA"

\* C10: exit status.  The process ends with a non-zero status and without
\* touching a snapshot file when the course listing failed; otherwise it has
\* run the grade stream, then the assignment stream, and ends with status 0.
C10_ExitStatus ==
    Ended => IF io = << >> THEN exitCode # 0
             ELSE exitCode = 0 /\ io = FullLog

\* the record shapes of the two snapshots
GradeFields      == {"assignment", "course", "grade", "comment_count",
                     "notified_at"}
AssignmentFields == {"name", "course", "due_at", "first_seen",
                     "due_changed_at"}
InGradeStream      == pc \in {"g_load", "g_course", "g_sub"}
InAssignmentStream == pc \in {"a_load", "a_course", "a_rec"}

OverlapSubs ==
    {[k \in {<<1, 1>>, <<2, 1>>} |-> [grade |-> "A", comments |-> << >>]]}
OverlapAsgs ==
    {[k \in {<<1, 1>>} |-> [name |-> "Essay", due_at |-> NoDue]]}

InitOverlap ==
    /\ remoteSubs \in OverlapSubs
    /\ remoteAsgs \in OverlapAsgs
    /\ changes = 0
    /\ gradesFile = Empty
    /\ asgFile = Empty
    /\ pc = "idle"
    /\ runs = 0
    /\ ci = 0
    /\ todo = << >>
    /\ seen = Empty
    /\ found = 0
    /\ overall_str = "N/A"
    /\ lastEvent = NoEvent
    /\ evCount = NoEvents
    /\ sentSince = ZeroCount
    /\ exitCode = -1
    /\ io = << >>
    /\ skipped = {}
    /\ loaded = NothingLoaded
    /\ shown = Empty
    /\ other = IdleProcess

\* the locals of the scheduled process
Locals ==
    [pc |-> pc, ci |-> ci, todo |-> todo, seen |-> seen, found |-> found,
     overall_str |-> overall_str, lastEvent |-> lastEvent,
     evCount |-> evCount, exitCode |-> exitCode, io |-> io,
     skipped |-> skipped, loaded |-> loaded]

\* the operating system schedules the other process
Switch ==
    /\ other' = Locals
    /\ pc' = other.pc
    /\ ci' = other.ci
    /\ todo' = other.todo
    /\ seen' = other.seen
    /\ found' = other.found
    /\ overall_str' = other.overall_str
    /\ lastEvent' = other.lastEvent
    /\ evCount' = other.evCount
    /\ exitCode' = other.exitCode
    /\ io' = other.io
    /\ skipped' = other.skipped
    /\ loaded' = other.loaded
    /\ UNCHANGED <<remoteVars, shown, fileVars, runs, sentSince>>

NextOverlap ==
    \/ StartRun \/ GetCoursesFails \/ GetCoursesOk
    \/ LoadGrades \/ GradesFetchSkips \/ GradesFetched \/ CourseGradeRaises
    \/ ProcessSubmission \/ SaveGrades
    \/ LoadAssignments \/ AssignmentsFetched \/ AssignmentsRaises
    \/ ProcessAssignment \/ SaveAssignments \/ Finish
    \/ Switch

SpecOverlap == InitOverlap /\ [][NextOverlap]_vars

\* C12: overlapping runs are unsafe.  Each run decides by the snapshot it
\* loaded and not by the file: a record whose key that snapshot lacks is
\* notified even when the other run already wrote the key to the file, and
\* save_json replaces the file by the run's own snapshot, merging nothing,
\* so what the other run saved meanwhile is gone.  (A step that leaves
\* "other" alone and moves pc or todo is a step of the scheduled process.)
C12_OverlapUnsafe ==
    [][(other' = other) =>
         /\ (pc = "g_load" /\ pc' = "g_course") => seen' = gradesFile
         /\ (pc = "a_load" /\ pc' = "a_course") => seen' = asgFile
         /\ (pc = "g_sub" /\ todo' # todo
               /\ <<ci, Head(todo)>> \notin DOMAIN seen) =>
               sentSince'["grades"][<<ci, Head(todo)>>]
                  = sentSince["grades"][<<ci, Head(todo)>>] + 1
         /\ (pc = "a_rec" /\ todo' # todo
               /\ <<ci, Head(todo)>> \notin DOMAIN seen) =>
               sentSince'["assignments"][<<ci, Head(todo)>>]
                  = sentSince["assignments"][<<ci, Head(todo)>>] + 1
         /\ (pc = "g_course" /\ pc' = "a_load") => gradesFile' = seen
         /\ (pc = "a_course" /\ pc' = "a_done") => asgFile' = seen]_vars

\* two runs that overlapped have both ended with status 0: both notified
\* the same grade, and the grade file lacks the entry of a grade that one of
\* them notified and saved
C12_Witness ==
    /\ Ended /\ exitCode = 0
    /\ other.pc = "idle" /\ other.exitCode = 0
    /\ \E k \in SubKeys : sentSince["grades"][k] = 2
    /\ \E k \in SubKeys : sentSince["grades"][k] >= 1 /\ k \notin DOMAIN gradesFile

\* how often operation op is in the log of the process
Count(op) == Cardinality({i \in 1..Len(io) : io[i] = op})

\* C13: persistence discipline.  Each stream loads its snapshot once, at
\* its start, and writes it exactly once, after the last course, whether or
\* not anything changed; between the load and that write the file is as it
\* was loaded; so a process that ended has saved every snapshot it loaded.
C13_PersistenceDiscipline ==
    /\ Count("loadG") <= 1 /\ Count("saveG") <= Count("loadG")
    /\ Count("loadA") <= 1 /\ Count("saveA") <= Count("loadA")
    /\ InGrades => (gradesFile = loaded["grades"] /\ Count("saveG") = 0)
    /\ InAssignments => (asgFile = loaded["assignments"] /\ Count("saveA") = 0)
    /\ JustSaved => SavedFile = seen
    /\ Ended => (Count("saveG") = Count("loadG") /\ Count("saveA") = Count("loadA"))

\* the number of changes the current stream has detected so far: the
\* events counted key by key
Detected == Cardinality(UNION {{k} \X (1..evCount[k]) : k \in Keys})

\* C14: delivered count.  found starts at 0 with the stream, grows by one
\* exactly when a delivery returns success, stays as it is when a delivery
\* fails or nothing was sent, and is never above the number of detected
\* changes; so at the stream's end it is the number of successful deliveries.
C14_DeliveredCount ==
    [][/\ (pc \in {"g_load", "a_load"}) => found' = 0
       /\ (pc \in {"g_sub", "a_rec"}) =>
             found' - found = IF lastEvent'.kind # "None" /\ lastEvent'.delivered
                                THEN 1 ELSE 0
       /\ (pc \in {"g_course", "a_course"} /\ pc' # "idle") => found' = found
       /\ found' <= Detected']_vars

\* the grade stream ended with two changes detected, one of them delivered
C14_Witness ==
    /\ pc = "a_load"
    /\ Detected = 2
    /\ found = 1

\* the comments of submission k that count: written by somebody else than
\* the submission's user, with text left after trimming
Counted(k) ==
    Cardinality({i \in 1..Len(remoteSubs[k].comments) :
                    /\ ~remoteSubs[k].comments[i].own
                    /\ ~remoteSubs[k].comments[i].blank})

\* C15: comment filtering.  Only comments of another author with non-blank
\* text count: an event carries and stores exactly that count, and a stored
\* key whose counted comments are not more than the stored comment_count
\* gets no event and keeps its record, however many comments of the
\* submission's own user or of blank text were added.
C15_CommentFiltering ==
    (InGrades /\ lastEvent.key \in Keys) =>
        LET k   == lastEvent.key
            old == loaded["grades"]
        IN  IF lastEvent.kind = "GradePosted"
              THEN /\ lastEvent.comments = Counted(k)
                   /\ seen[k].comment_count = Counted(k)
                   /\ (k \notin DOMAIN old \/ Counted(k) > old[k].comment_count)
              ELSE /\ k \in DOMAIN old
                   /\ seen[k] = old[k]
                   /\ Counted(k) <= old[k].comment_count

\* a stored submission was processed without an event although it shows
\* more comments than the stored count: the added ones do not count
C15_Witness ==
    /\ InGrades
    /\ lastEvent.kind = "None"
    /\ lastEvent.key \in DOMAIN loaded["grades"]
    /\ Len(remoteSubs[lastEvent.key].comments)
          > loaded["grades"][lastEvent.key].comment_count
    /\ seen[lastEvent.key].comment_count
          = loaded["grades"][lastEvent.key].comment_count

\* a record of the grade snapshot holds what lines 183-189 put into it and
\* nothing of the course's overall grade
PlainGradeRecord(record) ==
    /\ DOMAIN record = GradeFields
    /\ record.grade \in Grades
    /\ record.comment_count \in 0..MaxComments
    /\ record.notified_at \in 1..MaxRuns

\* C16: the overall grade is not diffed or stored.  No record of the grade
\* snapshot, in memory or in the file, holds the course's overall grade, and
\* an event for a stored key is always due to more counted comments: a
\* stored submission with no new comment gets no event whatever overall
\* grade the course shows now and showed when the key was notified.
C16_OverallNotDiffedOrStored ==
    /\ \A k \in DOMAIN gradesFile : PlainGradeRecord(gradesFile[k])
    /\ InGrades => \A k \in DOMAIN seen : PlainGradeRecord(seen[k])
    /\ (InGrades /\ lastEvent.key \in DOMAIN loaded["grades"]) =>
          LET k == lastEvent.key
          IN  IF Counted(k) > loaded["grades"][k].comment_count
                THEN lastEvent.kind = "GradePosted"
                ELSE lastEvent.kind = "None" /\ seen[k] = loaded["grades"][k]

\* a stored submission was processed without an event while its course shows
\* another overall grade than the one its notification showed
C16_Witness ==
    /\ pc = "g_sub"
    /\ lastEvent.kind = "None"
    /\ lastEvent.key \in DOMAIN loaded["grades"] \cap DOMAIN shown
    /\ lastEvent.key[1] = ci
    /\ overall_str # shown[lastEvent.key]

\* the fields of an assignment record a due-date change must leave alone
Inserted(record) == <<record.name, record.course, record.first_seen>>

\* C17: due-date update frame.  A DueDateChanged step writes the fetched
\* due_at and the time of the change into due_at and due_changed_at of the
\* stored record and nothing else; name, course and first_seen of a stored
\* assignment never change again, in the stream's snapshot and in the file,
\* through any later run.
C17_DueDateUpdateFrame ==
    [][/\ (pc = "a_rec" /\ <<ci, Head(todo)>> \in DOMAIN seen) =>
             LET key == <<ci, Head(todo)>>
             IN  /\ Inserted(seen'[key]) = Inserted(seen[key])
                 /\ lastEvent'.kind = "DueDateChanged" =>
                       seen' = [seen EXCEPT
                                  ![key].due_at = remoteAsgs[key].due_at,
                                  ![key].due_changed_at = runs]
       /\ \A k \in DOMAIN asgFile :
             /\ k \in DOMAIN asgFile'
             /\ Inserted(asgFile'[k]) = Inserted(asgFile[k])]_vars

\* the due date of an assignment stored by an earlier run was updated while
\* Canvas shows the assignment under another name than the stored one
C17_Witness ==
    /\ InAssignments
    /\ lastEvent.kind = "DueDateChanged"
    /\ seen[lastEvent.key].due_changed_at = runs
    /\ seen[lastEvent.key].first_seen < runs
    /\ seen[lastEvent.key].name # remoteAsgs[lastEvent.key].name
    /\ seen[lastEvent.key].due_at # loaded["assignments"][lastEvent.key].due_at

\* C18: the snapshots are grow-only.  No step removes a key from a snapshot
\* file or, while a stream runs, from its in-memory snapshot: the keys of
\* each file after a save include its keys before, also when the record or
\* its whole course is gone from what Canvas answers.
C18_GrowOnly ==
    [][/\ DOMAIN gradesFile \subseteq DOMAIN gradesFile'
       /\ DOMAIN asgFile \subseteq DOMAIN asgFile'
       /\ (Running /\ Running') => DOMAIN seen \subseteq DOMAIN seen']_vars

\* a run has completed after a record stored by an earlier run was gone
\* from Canvas (a submission that left the graded state, a deleted
\* assignment), and the file still holds its key
C18_Witness ==
    /\ Ended /\ exitCode = 0
    /\ \/ \E k \in DOMAIN gradesFile \ DOMAIN remoteSubs :
             gradesFile[k].notified_at < runs
       \/ \E k \in DOMAIN asgFile \ DOMAIN remoteAsgs :
             asgFile[k].first_seen < runs

\* C19: a changed grade alone is not a change.  A stored submission whose
\* counted comments are not more than the stored comment_count gets no
\* event even when Canvas shows another grade than the stored one, and the
\* stored grade stays as it is: the grade of a record changes only together
\* with an event for its key.
C19_GradeAloneNoChange ==
    [][/\ (pc = "g_sub" /\ <<ci, Head(todo)>> \in DOMAIN seen) =>
             LET key == <<ci, Head(todo)>>
             IN  /\ (Counted(key) <= seen[key].comment_count) =>
                       /\ evCount' = evCount
                       /\ lastEvent' = Quiet(key)
                       /\ seen' = seen
                 /\ (seen'[key].grade # seen[key].grade) =>
                       /\ evCount'[key] = evCount[key] + 1
                       /\ seen'[key].grade = remoteSubs[key].grade
       /\ \A k \in DOMAIN gradesFile \cap DOMAIN gradesFile' :
             (gradesFile'[k].grade # gradesFile[k].grade) =>
                 gradesFile'[k].notified_at > gradesFile[k].notified_at]_vars

\* a stored submission was regraded, was processed without an event and
\* its record still holds the old grade
C19_Witness ==
    /\ InGrades
    /\ lastEvent.kind = "None"
    /\ lastEvent.key \in DOMAIN loaded["grades"]
    /\ seen[lastEvent.key].grade # remoteSubs[lastEvent.key].grade
    /\ seen[lastEvent.key] = loaded["grades"][lastEvent.key]

\* C20: commit precedes delivery.  A step that produces an event has the
\* entry of its key written with the fetched values and the time of this
\* run, whatever send_notification returns: the snapshot after the step is
\* fixed by the snapshot before it and the fetched record, the delivery
\* touches no file, and save_json writes the snapshot as it is.  So the file
\* a run writes does not depend on the results of its deliveries.
C20_CommitPrecedesDelivery ==
    [][/\ (pc = "g_sub" /\ lastEvent'.kind # "None") =>
             LET key == <<ci, Head(todo)>>
             IN  /\ seen' = Put(seen, key,
                                [assignment |-> key[2], course |-> key[1],
                                 grade |-> remoteSubs[key].grade,
                                 comment_count |-> Counted(key),
                                 notified_at |-> runs])
                 /\ fileVars' = fileVars
       /\ (pc = "a_rec" /\ lastEvent'.kind # "None") =>
             LET key == <<ci, Head(todo)>>
             IN  /\ key \in DOMAIN seen'
                 /\ seen'[key].due_at = remoteAsgs[key].due_at
                 /\ \A k \in DOMAIN seen \ {key} :
                       k \in DOMAIN seen' /\ seen'[k] = seen[k]
                 /\ IF lastEvent'.kind = "NewAssignment"
                      THEN seen'[key].first_seen = runs
                      ELSE seen'[key].due_changed_at = runs
                 /\ fileVars' = fileVars
       /\ (pc = "g_course" /\ pc' = "a_load") => gradesFile' = seen
       /\ (pc = "a_course" /\ pc' = "a_done") => asgFile' = seen]_vars

\* the grade stream has saved the entry of a change whose only delivery
\* failed
C20_Witness ==
    /\ pc = "a_load"
    /\ found = 0
    /\ \E k \in DOMAIN gradesFile :
          /\ evCount[k] = 1
          /\ sentSince["grades"][k] = 1
          /\ gradesFile[k].notified_at = runs

====
